---- MODULE Spec2Model ----
(***************************************************************************)
(* Washer control state machine of the STM32 washer controller.            *)
(*                                                                         *)
(* The repository holds the controller in src/src/washer.c (fill timer,    *)
(* no temperature input) and a second variant in src/unnamed/part_000      *)
(* (temperature-driven valves, no fill timer).  main.c polls the buttons   *)
(* itself and calls Washer_Update once per loop iteration.                 *)
(*                                                                         *)
(*   Spec        Washer_HandleButtonPress / Washer_Update of washer.c,     *)
(*               called in any order while the HAL tick advances           *)
(*   SpecCorrupt Spec plus an environment step that overwrites the state   *)
(*               field with a value no enumerator names                    *)
(*   SpecTemp    the part_000 variant of Washer_Update                     *)
(*   SpecMain    the host loop of main.c                                   *)
(***************************************************************************)
EXTENDS Integers, Sequences, FiniteSets, TLC

VARIABLES
    washer,           \* the WasherControl structure
    lastTime,         \* static uint32_t lastTime of Washer_Update
    tick,             \* HAL_GetTick()
    pins,             \* level of the four output pins
    selectedProgram,  \* global of main.c
    iteration,        \* iterations of main's while (1) completed
    notes,            \* history: display calls made by the last call
    lastCall,         \* history: the last call and its inputs
    pre,              \* history: the program state before the last call
    startTick,        \* history: tick at which the last Start was accepted
    cancelled         \* history: a Stop has cut a fill short of the fill time

vars == <<washer, lastTime, tick, pins, selectedProgram, iteration, notes, lastCall,
          pre, startTick, cancelled>>

(***************************************************************************)
(* Bounds of the model                                                     *)
(***************************************************************************)
\* the HAL tick is advanced only while it stays at or below MaxTick
MaxTick == 30000
\* raw values the state field may be overwritten with: 0 .. MaxRawState
MaxRawState == 6

(***************************************************************************)
(* Program constants                                                       *)
(***************************************************************************)
\* WasherState enumerators, in declaration order
IDLE == 0
FILL_WATER == 1
WASH == 2
RINSE == 3
SPIN == 4
\* sixth enumerator of WasherState; washer.c names it ERROR
ERROR == 5

WasherStates == {IDLE, FILL_WATER, WASH, RINSE, SPIN, ERROR}
RawStates == 0 .. MaxRawState

\* motor direction written by Washer_Init
FORWARD == 0

\* button codes compared by Washer_HandleButtonPress; 0 is a code it does not know
BUTTON_START == 1
BUTTON_STOP == 2
BUTTON_UP == 3
BUTTON_DOWN == 4
NO_BUTTON == 0
ButtonInputs == {NO_BUTTON, BUTTON_START, BUTTON_STOP, BUTTON_UP, BUTTON_DOWN}

\* highest program index
MAX_PROGRAM == 29

\* fill time in ticks (ms)
FILL_DURATION == 10000

\* output pins on GPIOB
PinNames == {"MOTOR_FORWARD", "MOTOR_REVERSE", "WATER_HOT", "WATER_COLD"}
MOTOR_PINS == {"MOTOR_FORWARD", "MOTOR_REVERSE"}
WATER_PINS == {"WATER_HOT", "WATER_COLD"}

\* the tick steps the clock input is drawn from: just below and at the fill time
TickSteps == {FILL_DURATION - 1, FILL_DURATION}

(***************************************************************************)
(* Collaborators                                                           *)
(***************************************************************************)
\* HAL_GPIO_WritePin(port, pinmask, level)
HAL_GPIO_WritePin(p, mask, level) ==
    [k \in PinNames |-> IF k \in mask THEN level ELSE p[k]]

\* Display_UpdateWasherState(state, programIndex): one notification
Display_UpdateWasherState(s, idx) ==
    [kind |-> "state", state |-> s, programIndex |-> idx]

\* Display_ShowSelectedProgram(programIndex): one notification
Display_ShowSelectedProgram(idx) ==
    [kind |-> "program", state |-> -1, programIndex |-> idx]

AllOff == [k \in PinNames |-> FALSE]

(***************************************************************************)
(* washer.c                                                                *)
(***************************************************************************)
\* mutant: the program index is left as found
Washer_Init_KeepsProgram(w) ==
    [w |-> [state |-> IDLE, programIndex |-> w.programIndex, stepIndex |-> 0,
            timer |-> 0, direction |-> FORWARD],
     notes |-> <<Display_UpdateWasherState(IDLE, w.programIndex)>>]

Washer_Init(w) ==
    [w |-> [state |-> IDLE, programIndex |-> 0, stepIndex |-> 0,
            timer |-> 0, direction |-> FORWARD],
     notes |-> <<Display_UpdateWasherState(IDLE, 0)>>]

\* currentTime - lastTime on uint32_t; the ticks of the model stay below 2^31
\* and never run backwards, so the subtraction does not borrow
Elapsed(currentTime, last) == currentTime - last

\* mutant: SPIN sets the whole motor mask, as IDLE clears it
Washer_Update_SpinBothWindings(w, last, currentTime, p) ==
    CASE w.state = IDLE ->
           LET p1 == HAL_GPIO_WritePin(p, MOTOR_PINS, FALSE)
               p2 == HAL_GPIO_WritePin(p1, WATER_PINS, FALSE)
           IN  [w |-> w, lastTime |-> last, pins |-> p2, notes |-> <<>>]
      [] w.state = FILL_WATER ->
           LET n  == <<Display_UpdateWasherState(FILL_WATER, w.programIndex)>>
               p1 == HAL_GPIO_WritePin(p, {"WATER_HOT"}, TRUE)
               p2 == HAL_GPIO_WritePin(p1, {"WATER_COLD"}, TRUE)
           IN  IF Elapsed(currentTime, last) >= FILL_DURATION
               THEN [w |-> [w EXCEPT !.state = WASH],
                     lastTime |-> currentTime,
                     pins |-> HAL_GPIO_WritePin(p2, WATER_PINS, FALSE),
                     notes |-> n]
               ELSE [w |-> w, lastTime |-> last, pins |-> p2, notes |-> n]
      [] w.state = WASH ->
           [w |-> [w EXCEPT !.state = RINSE], lastTime |-> last, pins |-> p,
            notes |-> <<Display_UpdateWasherState(WASH, w.programIndex)>>]
      [] w.state = RINSE ->
           [w |-> [w EXCEPT !.state = SPIN], lastTime |-> last, pins |-> p,
            notes |-> <<Display_UpdateWasherState(RINSE, w.programIndex)>>]
      [] w.state = SPIN ->
           LET p1 == HAL_GPIO_WritePin(p, MOTOR_PINS, TRUE)
               p2 == p1
           IN  [w |-> [w EXCEPT !.state = IDLE], lastTime |-> last, pins |-> p2,
                notes |-> <<Display_UpdateWasherState(SPIN, w.programIndex)>>]
      [] w.state = ERROR ->
           LET p1 == HAL_GPIO_WritePin(p, MOTOR_PINS, FALSE)
               p2 == HAL_GPIO_WritePin(p1, WATER_PINS, FALSE)
           IN  [w |-> w, lastTime |-> last, pins |-> p2,
                notes |-> <<Display_UpdateWasherState(ERROR, w.programIndex)>>]
      [] OTHER ->
           [w |-> [w EXCEPT !.state = ERROR], lastTime |-> last, pins |-> p,
            notes |-> <<>>]

\* mutant: ERROR switches the motor off and leaves the valves
Washer_Update_ErrorKeepsValves(w, last, currentTime, p) ==
    CASE w.state = IDLE ->
           LET p1 == HAL_GPIO_WritePin(p, MOTOR_PINS, FALSE)
               p2 == HAL_GPIO_WritePin(p1, WATER_PINS, FALSE)
           IN  [w |-> w, lastTime |-> last, pins |-> p2, notes |-> <<>>]
      [] w.state = FILL_WATER ->
           LET n  == <<Display_UpdateWasherState(FILL_WATER, w.programIndex)>>
               p1 == HAL_GPIO_WritePin(p, {"WATER_HOT"}, TRUE)
               p2 == HAL_GPIO_WritePin(p1, {"WATER_COLD"}, TRUE)
           IN  IF Elapsed(currentTime, last) >= FILL_DURATION
               THEN [w |-> [w EXCEPT !.state = WASH],
                     lastTime |-> currentTime,
                     pins |-> HAL_GPIO_WritePin(p2, WATER_PINS, FALSE),
                     notes |-> n]
               ELSE [w |-> w, lastTime |-> last, pins |-> p2, notes |-> n]
      [] w.state = WASH ->
           [w |-> [w EXCEPT !.state = RINSE], lastTime |-> last, pins |-> p,
            notes |-> <<Display_UpdateWasherState(WASH, w.programIndex)>>]
      [] w.state = RINSE ->
           [w |-> [w EXCEPT !.state = SPIN], lastTime |-> last, pins |-> p,
            notes |-> <<Display_UpdateWasherState(RINSE, w.programIndex)>>]
      [] w.state = SPIN ->
           LET p1 == HAL_GPIO_WritePin(p, {"MOTOR_FORWARD"}, TRUE)
               p2 == HAL_GPIO_WritePin(p1, {"MOTOR_REVERSE"}, FALSE)
           IN  [w |-> [w EXCEPT !.state = IDLE], lastTime |-> last, pins |-> p2,
                notes |-> <<Display_UpdateWasherState(SPIN, w.programIndex)>>]
      [] w.state = ERROR ->
           LET p1 == HAL_GPIO_WritePin(p, MOTOR_PINS, FALSE)
               p2 == p1
           IN  [w |-> w, lastTime |-> last, pins |-> p2,
                notes |-> <<Display_UpdateWasherState(ERROR, w.programIndex)>>]
      [] OTHER ->
           [w |-> [w EXCEPT !.state = ERROR], lastTime |-> last, pins |-> p,
            notes |-> <<>>]

\* mutant: SPIN ends in the sixth enumerator instead of IDLE
Washer_Update_SpinToDone(w, last, currentTime, p) ==
    CASE w.state = IDLE ->
           LET p1 == HAL_GPIO_WritePin(p, MOTOR_PINS, FALSE)
               p2 == HAL_GPIO_WritePin(p1, WATER_PINS, FALSE)
           IN  [w |-> w, lastTime |-> last, pins |-> p2, notes |-> <<>>]
      [] w.state = FILL_WATER ->
           LET n  == <<Display_UpdateWasherState(FILL_WATER, w.programIndex)>>
               p1 == HAL_GPIO_WritePin(p, {"WATER_HOT"}, TRUE)
               p2 == HAL_GPIO_WritePin(p1, {"WATER_COLD"}, TRUE)
           IN  IF Elapsed(currentTime, last) >= FILL_DURATION
               THEN [w |-> [w EXCEPT !.state = WASH],
                     lastTime |-> currentTime,
                     pins |-> HAL_GPIO_WritePin(p2, WATER_PINS, FALSE),
                     notes |-> n]
               ELSE [w |-> w, lastTime |-> last, pins |-> p2, notes |-> n]
      [] w.state = WASH ->
           [w |-> [w EXCEPT !.state = RINSE], lastTime |-> last, pins |-> p,
            notes |-> <<Display_UpdateWasherState(WASH, w.programIndex)>>]
      [] w.state = RINSE ->
           [w |-> [w EXCEPT !.state = SPIN], lastTime |-> last, pins |-> p,
            notes |-> <<Display_UpdateWasherState(RINSE, w.programIndex)>>]
      [] w.state = SPIN ->
           LET p1 == HAL_GPIO_WritePin(p, {"MOTOR_FORWARD"}, TRUE)
               p2 == HAL_GPIO_WritePin(p1, {"MOTOR_REVERSE"}, FALSE)
           IN  [w |-> [w EXCEPT !.state = 5], lastTime |-> last, pins |-> p2,
                notes |-> <<Display_UpdateWasherState(SPIN, w.programIndex)>>]
      [] w.state = ERROR ->
           LET p1 == HAL_GPIO_WritePin(p, MOTOR_PINS, FALSE)
               p2 == HAL_GPIO_WritePin(p1, WATER_PINS, FALSE)
           IN  [w |-> w, lastTime |-> last, pins |-> p2,
                notes |-> <<Display_UpdateWasherState(ERROR, w.programIndex)>>]
      [] OTHER ->
           [w |-> [w EXCEPT !.state = ERROR], lastTime |-> last, pins |-> p,
            notes |-> <<>>]

\* mutant: ERROR falls back to IDLE by itself
Washer_Update_ErrorRecovers(w, last, currentTime, p) ==
    CASE w.state = IDLE ->
           LET p1 == HAL_GPIO_WritePin(p, MOTOR_PINS, FALSE)
               p2 == HAL_GPIO_WritePin(p1, WATER_PINS, FALSE)
           IN  [w |-> w, lastTime |-> last, pins |-> p2, notes |-> <<>>]
      [] w.state = FILL_WATER ->
           LET n  == <<Display_UpdateWasherState(FILL_WATER, w.programIndex)>>
               p1 == HAL_GPIO_WritePin(p, {"WATER_HOT"}, TRUE)
               p2 == HAL_GPIO_WritePin(p1, {"WATER_COLD"}, TRUE)
           IN  IF Elapsed(currentTime, last) >= FILL_DURATION
               THEN [w |-> [w EXCEPT !.state = WASH],
                     lastTime |-> currentTime,
                     pins |-> HAL_GPIO_WritePin(p2, WATER_PINS, FALSE),
                     notes |-> n]
               ELSE [w |-> w, lastTime |-> last, pins |-> p2, notes |-> n]
      [] w.state = WASH ->
           [w |-> [w EXCEPT !.state = RINSE], lastTime |-> last, pins |-> p,
            notes |-> <<Display_UpdateWasherState(WASH, w.programIndex)>>]
      [] w.state = RINSE ->
           [w |-> [w EXCEPT !.state = SPIN], lastTime |-> last, pins |-> p,
            notes |-> <<Display_UpdateWasherState(RINSE, w.programIndex)>>]
      [] w.state = SPIN ->
           LET p1 == HAL_GPIO_WritePin(p, {"MOTOR_FORWARD"}, TRUE)
               p2 == HAL_GPIO_WritePin(p1, {"MOTOR_REVERSE"}, FALSE)
           IN  [w |-> [w EXCEPT !.state = IDLE], lastTime |-> last, pins |-> p2,
                notes |-> <<Display_UpdateWasherState(SPIN, w.programIndex)>>]
      [] w.state = ERROR ->
           LET p1 == HAL_GPIO_WritePin(p, MOTOR_PINS, FALSE)
               p2 == HAL_GPIO_WritePin(p1, WATER_PINS, FALSE)
           IN  [w |-> [w EXCEPT !.state = IDLE], lastTime |-> last, pins |-> p2,
                notes |-> <<Display_UpdateWasherState(ERROR, w.programIndex)>>]
      [] OTHER ->
           [w |-> [w EXCEPT !.state = ERROR], lastTime |-> last, pins |-> p,
            notes |-> <<>>]

\* mutant: lastTime is refreshed on every call in FILL_WATER
Washer_Update_LastTimeEveryCall(w, last, currentTime, p) ==
    CASE w.state = IDLE ->
           LET p1 == HAL_GPIO_WritePin(p, MOTOR_PINS, FALSE)
               p2 == HAL_GPIO_WritePin(p1, WATER_PINS, FALSE)
           IN  [w |-> w, lastTime |-> last, pins |-> p2, notes |-> <<>>]
      [] w.state = FILL_WATER ->
           LET n  == <<Display_UpdateWasherState(FILL_WATER, w.programIndex)>>
               p1 == HAL_GPIO_WritePin(p, {"WATER_HOT"}, TRUE)
               p2 == HAL_GPIO_WritePin(p1, {"WATER_COLD"}, TRUE)
           IN  IF Elapsed(currentTime, last) >= FILL_DURATION
               THEN [w |-> [w EXCEPT !.state = WASH],
                     lastTime |-> currentTime,
                     pins |-> HAL_GPIO_WritePin(p2, WATER_PINS, FALSE),
                     notes |-> n]
               ELSE [w |-> w, lastTime |-> currentTime, pins |-> p2, notes |-> n]
      [] w.state = WASH ->
           [w |-> [w EXCEPT !.state = RINSE], lastTime |-> last, pins |-> p,
            notes |-> <<Display_UpdateWasherState(WASH, w.programIndex)>>]
      [] w.state = RINSE ->
           [w |-> [w EXCEPT !.state = SPIN], lastTime |-> last, pins |-> p,
            notes |-> <<Display_UpdateWasherState(RINSE, w.programIndex)>>]
      [] w.state = SPIN ->
           LET p1 == HAL_GPIO_WritePin(p, {"MOTOR_FORWARD"}, TRUE)
               p2 == HAL_GPIO_WritePin(p1, {"MOTOR_REVERSE"}, FALSE)
           IN  [w |-> [w EXCEPT !.state = IDLE], lastTime |-> last, pins |-> p2,
                notes |-> <<Display_UpdateWasherState(SPIN, w.programIndex)>>]
      [] w.state = ERROR ->
           LET p1 == HAL_GPIO_WritePin(p, MOTOR_PINS, FALSE)
               p2 == HAL_GPIO_WritePin(p1, WATER_PINS, FALSE)
           IN  [w |-> w, lastTime |-> last, pins |-> p2,
                notes |-> <<Display_UpdateWasherState(ERROR, w.programIndex)>>]
      [] OTHER ->
           [w |-> [w EXCEPT !.state = ERROR], lastTime |-> last, pins |-> p,
            notes |-> <<>>]

\* mutant: IDLE switches the motor off and leaves the valves
Washer_Update_IdleKeepsValves(w, last, currentTime, p) ==
    CASE w.state = IDLE ->
           LET p1 == HAL_GPIO_WritePin(p, MOTOR_PINS, FALSE)
               p2 == p1
           IN  [w |-> w, lastTime |-> last, pins |-> p2, notes |-> <<>>]
      [] w.state = FILL_WATER ->
           LET n  == <<Display_UpdateWasherState(FILL_WATER, w.programIndex)>>
               p1 == HAL_GPIO_WritePin(p, {"WATER_HOT"}, TRUE)
               p2 == HAL_GPIO_WritePin(p1, {"WATER_COLD"}, TRUE)
           IN  IF Elapsed(currentTime, last) >= FILL_DURATION
               THEN [w |-> [w EXCEPT !.state = WASH],
                     lastTime |-> currentTime,
                     pins |-> HAL_GPIO_WritePin(p2, WATER_PINS, FALSE),
                     notes |-> n]
               ELSE [w |-> w, lastTime |-> last, pins |-> p2, notes |-> n]
      [] w.state = WASH ->
           [w |-> [w EXCEPT !.state = RINSE], lastTime |-> last, pins |-> p,
            notes |-> <<Display_UpdateWasherState(WASH, w.programIndex)>>]
      [] w.state = RINSE ->
           [w |-> [w EXCEPT !.state = SPIN], lastTime |-> last, pins |-> p,
            notes |-> <<Display_UpdateWasherState(RINSE, w.programIndex)>>]
      [] w.state = SPIN ->
           LET p1 == HAL_GPIO_WritePin(p, {"MOTOR_FORWARD"}, TRUE)
               p2 == HAL_GPIO_WritePin(p1, {"MOTOR_REVERSE"}, FALSE)
           IN  [w |-> [w EXCEPT !.state = IDLE], lastTime |-> last, pins |-> p2,
                notes |-> <<Display_UpdateWasherState(SPIN, w.programIndex)>>]
      [] w.state = ERROR ->
           LET p1 == HAL_GPIO_WritePin(p, MOTOR_PINS, FALSE)
               p2 == HAL_GPIO_WritePin(p1, WATER_PINS, FALSE)
           IN  [w |-> w, lastTime |-> last, pins |-> p2,
                notes |-> <<Display_UpdateWasherState(ERROR, w.programIndex)>>]
      [] OTHER ->
           [w |-> [w EXCEPT !.state = ERROR], lastTime |-> last, pins |-> p,
            notes |-> <<>>]

\* mutant: the fill gate leads straight to RINSE
Washer_Update_FillSkipsWash(w, last, currentTime, p) ==
    CASE w.state = IDLE ->
           LET p1 == HAL_GPIO_WritePin(p, MOTOR_PINS, FALSE)
               p2 == HAL_GPIO_WritePin(p1, WATER_PINS, FALSE)
           IN  [w |-> w, lastTime |-> last, pins |-> p2, notes |-> <<>>]
      [] w.state = FILL_WATER ->
           LET n  == <<Display_UpdateWasherState(FILL_WATER, w.programIndex)>>
               p1 == HAL_GPIO_WritePin(p, {"WATER_HOT"}, TRUE)
               p2 == HAL_GPIO_WritePin(p1, {"WATER_COLD"}, TRUE)
           IN  IF Elapsed(currentTime, last) >= FILL_DURATION
               THEN [w |-> [w EXCEPT !.state = RINSE],
                     lastTime |-> currentTime,
                     pins |-> HAL_GPIO_WritePin(p2, WATER_PINS, FALSE),
                     notes |-> n]
               ELSE [w |-> w, lastTime |-> last, pins |-> p2, notes |-> n]
      [] w.state = WASH ->
           [w |-> [w EXCEPT !.state = RINSE], lastTime |-> last, pins |-> p,
            notes |-> <<Display_UpdateWasherState(WASH, w.programIndex)>>]
      [] w.state = RINSE ->
           [w |-> [w EXCEPT !.state = SPIN], lastTime |-> last, pins |-> p,
            notes |-> <<Display_UpdateWasherState(RINSE, w.programIndex)>>]
      [] w.state = SPIN ->
           LET p1 == HAL_GPIO_WritePin(p, {"MOTOR_FORWARD"}, TRUE)
               p2 == HAL_GPIO_WritePin(p1, {"MOTOR_REVERSE"}, FALSE)
           IN  [w |-> [w EXCEPT !.state = IDLE], lastTime |-> last, pins |-> p2,
                notes |-> <<Display_UpdateWasherState(SPIN, w.programIndex)>>]
      [] w.state = ERROR ->
           LET p1 == HAL_GPIO_WritePin(p, MOTOR_PINS, FALSE)
               p2 == HAL_GPIO_WritePin(p1, WATER_PINS, FALSE)
           IN  [w |-> w, lastTime |-> last, pins |-> p2,
                notes |-> <<Display_UpdateWasherState(ERROR, w.programIndex)>>]
      [] OTHER ->
           [w |-> [w EXCEPT !.state = ERROR], lastTime |-> last, pins |-> p,
            notes |-> <<>>]

\* mutant: the call that leaves FILL_WATER also notifies WASH
Washer_Update_NotifiesTwice(w, last, currentTime, p) ==
    CASE w.state = IDLE ->
           LET p1 == HAL_GPIO_WritePin(p, MOTOR_PINS, FALSE)
               p2 == HAL_GPIO_WritePin(p1, WATER_PINS, FALSE)
           IN  [w |-> w, lastTime |-> last, pins |-> p2, notes |-> <<>>]
      [] w.state = FILL_WATER ->
           LET n  == <<Display_UpdateWasherState(FILL_WATER, w.programIndex)>>
               p1 == HAL_GPIO_WritePin(p, {"WATER_HOT"}, TRUE)
               p2 == HAL_GPIO_WritePin(p1, {"WATER_COLD"}, TRUE)
           IN  IF Elapsed(currentTime, last) >= FILL_DURATION
               THEN [w |-> [w EXCEPT !.state = WASH],
                     lastTime |-> currentTime,
                     pins |-> HAL_GPIO_WritePin(p2, WATER_PINS, FALSE),
                     notes |-> n \o <<Display_UpdateWasherState(WASH, w.programIndex)>>]
               ELSE [w |-> w, lastTime |-> last, pins |-> p2, notes |-> n]
      [] w.state = WASH ->
           [w |-> [w EXCEPT !.state = RINSE], lastTime |-> last, pins |-> p,
            notes |-> <<Display_UpdateWasherState(WASH, w.programIndex)>>]
      [] w.state = RINSE ->
           [w |-> [w EXCEPT !.state = SPIN], lastTime |-> last, pins |-> p,
            notes |-> <<Display_UpdateWasherState(RINSE, w.programIndex)>>]
      [] w.state = SPIN ->
           LET p1 == HAL_GPIO_WritePin(p, {"MOTOR_FORWARD"}, TRUE)
               p2 == HAL_GPIO_WritePin(p1, {"MOTOR_REVERSE"}, FALSE)
           IN  [w |-> [w EXCEPT !.state = IDLE], lastTime |-> last, pins |-> p2,
                notes |-> <<Display_UpdateWasherState(SPIN, w.programIndex)>>]
      [] w.state = ERROR ->
           LET p1 == HAL_GPIO_WritePin(p, MOTOR_PINS, FALSE)
               p2 == HAL_GPIO_WritePin(p1, WATER_PINS, FALSE)
           IN  [w |-> w, lastTime |-> last, pins |-> p2,
                notes |-> <<Display_UpdateWasherState(ERROR, w.programIndex)>>]
      [] OTHER ->
           [w |-> [w EXCEPT !.state = ERROR], lastTime |-> last, pins |-> p,
            notes |-> <<>>]

\* mutant: the IDLE branch resets the valves only
Washer_Update_IdleKeepsMotor(w, last, currentTime, p) ==
    CASE w.state = IDLE ->
           LET p1 == p
               p2 == HAL_GPIO_WritePin(p1, WATER_PINS, FALSE)
           IN  [w |-> w, lastTime |-> last, pins |-> p2, notes |-> <<>>]
      [] w.state = FILL_WATER ->
           LET n  == <<Display_UpdateWasherState(FILL_WATER, w.programIndex)>>
               p1 == HAL_GPIO_WritePin(p, {"WATER_HOT"}, TRUE)
               p2 == HAL_GPIO_WritePin(p1, {"WATER_COLD"}, TRUE)
           IN  IF Elapsed(currentTime, last) >= FILL_DURATION
               THEN [w |-> [w EXCEPT !.state = WASH],
                     lastTime |-> currentTime,
                     pins |-> HAL_GPIO_WritePin(p2, WATER_PINS, FALSE),
                     notes |-> n]
               ELSE [w |-> w, lastTime |-> last, pins |-> p2, notes |-> n]
      [] w.state = WASH ->
           [w |-> [w EXCEPT !.state = RINSE], lastTime |-> last, pins |-> p,
            notes |-> <<Display_UpdateWasherState(WASH, w.programIndex)>>]
      [] w.state = RINSE ->
           [w |-> [w EXCEPT !.state = SPIN], lastTime |-> last, pins |-> p,
            notes |-> <<Display_UpdateWasherState(RINSE, w.programIndex)>>]
      [] w.state = SPIN ->
           LET p1 == HAL_GPIO_WritePin(p, {"MOTOR_FORWARD"}, TRUE)
               p2 == HAL_GPIO_WritePin(p1, {"MOTOR_REVERSE"}, FALSE)
           IN  [w |-> [w EXCEPT !.state = IDLE], lastTime |-> last, pins |-> p2,
                notes |-> <<Display_UpdateWasherState(SPIN, w.programIndex)>>]
      [] w.state = ERROR ->
           LET p1 == HAL_GPIO_WritePin(p, MOTOR_PINS, FALSE)
               p2 == HAL_GPIO_WritePin(p1, WATER_PINS, FALSE)
           IN  [w |-> w, lastTime |-> last, pins |-> p2,
                notes |-> <<Display_UpdateWasherState(ERROR, w.programIndex)>>]
      [] OTHER ->
           [w |-> [w EXCEPT !.state = ERROR], lastTime |-> last, pins |-> p,
            notes |-> <<>>]

\* mutant: update in IDLE resets the program index
Washer_Update_IdleClearsProgram(w, last, currentTime, p) ==
    CASE w.state = IDLE ->
           LET p1 == HAL_GPIO_WritePin(p, MOTOR_PINS, FALSE)
               p2 == HAL_GPIO_WritePin(p1, WATER_PINS, FALSE)
           IN  [w |-> [w EXCEPT !.programIndex = 0], lastTime |-> last, pins |-> p2,
                notes |-> <<>>]
      [] w.state = FILL_WATER ->
           LET n  == <<Display_UpdateWasherState(FILL_WATER, w.programIndex)>>
               p1 == HAL_GPIO_WritePin(p, {"WATER_HOT"}, TRUE)
               p2 == HAL_GPIO_WritePin(p1, {"WATER_COLD"}, TRUE)
           IN  IF Elapsed(currentTime, last) >= FILL_DURATION
               THEN [w |-> [w EXCEPT !.state = WASH],
                     lastTime |-> currentTime,
                     pins |-> HAL_GPIO_WritePin(p2, WATER_PINS, FALSE),
                     notes |-> n]
               ELSE [w |-> w, lastTime |-> last, pins |-> p2, notes |-> n]
      [] w.state = WASH ->
           [w |-> [w EXCEPT !.state = RINSE], lastTime |-> last, pins |-> p,
            notes |-> <<Display_UpdateWasherState(WASH, w.programIndex)>>]
      [] w.state = RINSE ->
           [w |-> [w EXCEPT !.state = SPIN], lastTime |-> last, pins |-> p,
            notes |-> <<Display_UpdateWasherState(RINSE, w.programIndex)>>]
      [] w.state = SPIN ->
           LET p1 == HAL_GPIO_WritePin(p, {"MOTOR_FORWARD"}, TRUE)
               p2 == HAL_GPIO_WritePin(p1, {"MOTOR_REVERSE"}, FALSE)
           IN  [w |-> [w EXCEPT !.state = IDLE], lastTime |-> last, pins |-> p2,
                notes |-> <<Display_UpdateWasherState(SPIN, w.programIndex)>>]
      [] w.state = ERROR ->
           LET p1 == HAL_GPIO_WritePin(p, MOTOR_PINS, FALSE)
               p2 == HAL_GPIO_WritePin(p1, WATER_PINS, FALSE)
           IN  [w |-> w, lastTime |-> last, pins |-> p2,
                notes |-> <<Display_UpdateWasherState(ERROR, w.programIndex)>>]
      [] OTHER ->
           [w |-> [w EXCEPT !.state = ERROR], lastTime |-> last, pins |-> p,
            notes |-> <<>>]

Washer_Update(w, last, currentTime, p) ==
    CASE w.state = IDLE ->
           LET p1 == HAL_GPIO_WritePin(p, MOTOR_PINS, FALSE)
               p2 == HAL_GPIO_WritePin(p1, WATER_PINS, FALSE)
           IN  [w |-> w, lastTime |-> last, pins |-> p2, notes |-> <<>>]
      [] w.state = FILL_WATER ->
           LET n  == <<Display_UpdateWasherState(FILL_WATER, w.programIndex)>>
               p1 == HAL_GPIO_WritePin(p, {"WATER_HOT"}, TRUE)
               p2 == HAL_GPIO_WritePin(p1, {"WATER_COLD"}, TRUE)
           IN  IF Elapsed(currentTime, last) >= FILL_DURATION
               THEN [w |-> [w EXCEPT !.state = WASH],
                     lastTime |-> currentTime,
                     pins |-> HAL_GPIO_WritePin(p2, WATER_PINS, FALSE),
                     notes |-> n]
               ELSE [w |-> w, lastTime |-> last, pins |-> p2, notes |-> n]
      [] w.state = WASH ->
           [w |-> [w EXCEPT !.state = RINSE], lastTime |-> last, pins |-> p,
            notes |-> <<Display_UpdateWasherState(WASH, w.programIndex)>>]
      [] w.state = RINSE ->
           [w |-> [w EXCEPT !.state = SPIN], lastTime |-> last, pins |-> p,
            notes |-> <<Display_UpdateWasherState(RINSE, w.programIndex)>>]
      [] w.state = SPIN ->
           LET p1 == HAL_GPIO_WritePin(p, {"MOTOR_FORWARD"}, TRUE)
               p2 == HAL_GPIO_WritePin(p1, {"MOTOR_REVERSE"}, FALSE)
           IN  [w |-> [w EXCEPT !.state = IDLE], lastTime |-> last, pins |-> p2,
                notes |-> <<Display_UpdateWasherState(SPIN, w.programIndex)>>]
      [] w.state = ERROR ->
           LET p1 == HAL_GPIO_WritePin(p, MOTOR_PINS, FALSE)
               p2 == HAL_GPIO_WritePin(p1, WATER_PINS, FALSE)
           IN  [w |-> w, lastTime |-> last, pins |-> p2,
                notes |-> <<Display_UpdateWasherState(ERROR, w.programIndex)>>]
      [] OTHER ->
           [w |-> [w EXCEPT !.state = ERROR], lastTime |-> last, pins |-> p,
            notes |-> <<>>]

\* mutant: Stop is honoured only in the states of a running cycle
Washer_HandleButtonPress_StopOnlyInCycle(w, button) ==
    IF button = BUTTON_START /\ w.state = IDLE
    THEN [w |-> [w EXCEPT !.state = FILL_WATER],
          notes |-> <<Display_UpdateWasherState(FILL_WATER, w.programIndex)>>]
    ELSE IF button = BUTTON_STOP /\ w.state \in {FILL_WATER, WASH, RINSE, SPIN}
    THEN [w |-> [w EXCEPT !.state = IDLE],
          notes |-> <<Display_UpdateWasherState(IDLE, w.programIndex)>>]
    ELSE IF button = BUTTON_UP /\ w.state = IDLE
    THEN IF w.programIndex < MAX_PROGRAM
         THEN [w |-> [w EXCEPT !.programIndex = w.programIndex + 1],
               notes |-> <<Display_ShowSelectedProgram(w.programIndex + 1)>>]
         ELSE [w |-> w, notes |-> <<>>]
    ELSE IF button = BUTTON_DOWN /\ w.state = IDLE
    THEN IF w.programIndex > 0
         THEN [w |-> [w EXCEPT !.programIndex = w.programIndex - 1],
               notes |-> <<Display_ShowSelectedProgram(w.programIndex - 1)>>]
         ELSE [w |-> w, notes |-> <<>>]
    ELSE [w |-> w, notes |-> <<>>]

\* mutant: the ceiling test admits one increment too many
Washer_HandleButtonPress_UpOffByOne(w, button) ==
    IF button = BUTTON_START /\ w.state = IDLE
    THEN [w |-> [w EXCEPT !.state = FILL_WATER],
          notes |-> <<Display_UpdateWasherState(FILL_WATER, w.programIndex)>>]
    ELSE IF button = BUTTON_STOP
    THEN [w |-> [w EXCEPT !.state = IDLE],
          notes |-> <<Display_UpdateWasherState(IDLE, w.programIndex)>>]
    ELSE IF button = BUTTON_UP /\ w.state = IDLE
    THEN IF w.programIndex <= MAX_PROGRAM
         THEN [w |-> [w EXCEPT !.programIndex = w.programIndex + 1],
               notes |-> <<Display_ShowSelectedProgram(w.programIndex + 1)>>]
         ELSE [w |-> w, notes |-> <<>>]
    ELSE IF button = BUTTON_DOWN /\ w.state = IDLE
    THEN IF w.programIndex > 0
         THEN [w |-> [w EXCEPT !.programIndex = w.programIndex - 1],
               notes |-> <<Display_ShowSelectedProgram(w.programIndex - 1)>>]
         ELSE [w |-> w, notes |-> <<>>]
    ELSE [w |-> w, notes |-> <<>>]

\* mutant: Start is accepted without the IDLE test
Washer_HandleButtonPress_StartAnyState(w, button) ==
    IF button = BUTTON_START
    THEN [w |-> [w EXCEPT !.state = FILL_WATER],
          notes |-> <<Display_UpdateWasherState(FILL_WATER, w.programIndex)>>]
    ELSE IF button = BUTTON_STOP
    THEN [w |-> [w EXCEPT !.state = IDLE],
          notes |-> <<Display_UpdateWasherState(IDLE, w.programIndex)>>]
    ELSE IF button = BUTTON_UP /\ w.state = IDLE
    THEN IF w.programIndex < MAX_PROGRAM
         THEN [w |-> [w EXCEPT !.programIndex = w.programIndex + 1],
               notes |-> <<Display_ShowSelectedProgram(w.programIndex + 1)>>]
         ELSE [w |-> w, notes |-> <<>>]
    ELSE IF button = BUTTON_DOWN /\ w.state = IDLE
    THEN IF w.programIndex > 0
         THEN [w |-> [w EXCEPT !.programIndex = w.programIndex - 1],
               notes |-> <<Display_ShowSelectedProgram(w.programIndex - 1)>>]
         ELSE [w |-> w, notes |-> <<>>]
    ELSE [w |-> w, notes |-> <<>>]

\* mutant: the floor test stops one short of 0
Washer_HandleButtonPress_DownOffByOne(w, button) ==
    IF button = BUTTON_START /\ w.state = IDLE
    THEN [w |-> [w EXCEPT !.state = FILL_WATER],
          notes |-> <<Display_UpdateWasherState(FILL_WATER, w.programIndex)>>]
    ELSE IF button = BUTTON_STOP
    THEN [w |-> [w EXCEPT !.state = IDLE],
          notes |-> <<Display_UpdateWasherState(IDLE, w.programIndex)>>]
    ELSE IF button = BUTTON_UP /\ w.state = IDLE
    THEN IF w.programIndex < MAX_PROGRAM
         THEN [w |-> [w EXCEPT !.programIndex = w.programIndex + 1],
               notes |-> <<Display_ShowSelectedProgram(w.programIndex + 1)>>]
         ELSE [w |-> w, notes |-> <<>>]
    ELSE IF button = BUTTON_DOWN /\ w.state = IDLE
    THEN IF w.programIndex > 1
         THEN [w |-> [w EXCEPT !.programIndex = w.programIndex - 1],
               notes |-> <<Display_ShowSelectedProgram(w.programIndex - 1)>>]
         ELSE [w |-> w, notes |-> <<>>]
    ELSE [w |-> w, notes |-> <<>>]

Washer_HandleButtonPress(w, button) ==
    IF button = BUTTON_START /\ w.state = IDLE
    THEN [w |-> [w EXCEPT !.state = FILL_WATER],
          notes |-> <<Display_UpdateWasherState(FILL_WATER, w.programIndex)>>]
    ELSE IF button = BUTTON_STOP
    THEN [w |-> [w EXCEPT !.state = IDLE],
          notes |-> <<Display_UpdateWasherState(IDLE, w.programIndex)>>]
    ELSE IF button = BUTTON_UP /\ w.state = IDLE
    THEN IF w.programIndex < MAX_PROGRAM
         THEN [w |-> [w EXCEPT !.programIndex = w.programIndex + 1],
               notes |-> <<Display_ShowSelectedProgram(w.programIndex + 1)>>]
         ELSE [w |-> w, notes |-> <<>>]
    ELSE IF button = BUTTON_DOWN /\ w.state = IDLE
    THEN IF w.programIndex > 0
         THEN [w |-> [w EXCEPT !.programIndex = w.programIndex - 1],
               notes |-> <<Display_ShowSelectedProgram(w.programIndex - 1)>>]
         ELSE [w |-> w, notes |-> <<>>]
    ELSE [w |-> w, notes |-> <<>>]

(***************************************************************************)
(* part_000: Washer_Update with the temperature-driven valves              *)
(***************************************************************************)
\* Read_Temperature: (adcValue / 4095.0) * 100.0.  The model keeps the value
\* exactly, in units of 1/4095 degree; no 12-bit sample lies within float
\* rounding of a threshold, so the comparisons below decide as the C ones do
ADC_FULL_SCALE == 4095
Read_Temperature(adcValue) == adcValue * 100

\* the thresholds 25.0 and 35.0 in the same units
TEMP_HOT_BELOW == 25 * ADC_FULL_SCALE
TEMP_COLD_ABOVE == 35 * ADC_FULL_SCALE

\* the conversion results fed to the model: 0, full scale and the two samples
\* on either side of each threshold
AdcSamples == {0, 1023, 1024, 1433, 1434, ADC_FULL_SCALE}

\* Display_UpdateTime(): one refresh of the clock display
Display_UpdateTime == [kind |-> "time", state |-> -1, programIndex |-> -1]

\* mutant: the hot-only band includes 25.0
Washer_UpdateTemp_HotBandClosed(w, temperature, p) ==
    CASE w.state = IDLE ->
           [w |-> w, pins |-> p, notes |-> <<Display_UpdateTime>>]
      [] w.state = FILL_WATER ->
           LET n == <<Display_UpdateWasherState(FILL_WATER, w.programIndex),
                      Display_UpdateTime>>
               v == IF temperature <= TEMP_HOT_BELOW
                    THEN HAL_GPIO_WritePin(HAL_GPIO_WritePin(p, {"WATER_HOT"}, TRUE),
                                           {"WATER_COLD"}, FALSE)
                    ELSE IF temperature > TEMP_COLD_ABOVE
                    THEN HAL_GPIO_WritePin(HAL_GPIO_WritePin(p, {"WATER_HOT"}, FALSE),
                                           {"WATER_COLD"}, TRUE)
                    ELSE HAL_GPIO_WritePin(HAL_GPIO_WritePin(p, {"WATER_HOT"}, TRUE),
                                           {"WATER_COLD"}, TRUE)
           IN  [w |-> [w EXCEPT !.state = WASH], pins |-> v, notes |-> n]
      [] w.state = WASH ->
           [w |-> [w EXCEPT !.state = RINSE], pins |-> p,
            notes |-> <<Display_UpdateWasherState(WASH, w.programIndex),
                        Display_UpdateTime>>]
      [] w.state = RINSE ->
           [w |-> [w EXCEPT !.state = SPIN], pins |-> p,
            notes |-> <<Display_UpdateWasherState(RINSE, w.programIndex),
                        Display_UpdateTime>>]
      [] w.state = SPIN ->
           [w |-> [w EXCEPT !.state = IDLE], pins |-> p,
            notes |-> <<Display_UpdateWasherState(SPIN, w.programIndex),
                        Display_UpdateTime>>]
      [] w.state = ERROR ->
           [w |-> w, pins |-> p,
            notes |-> <<Display_UpdateWasherState(ERROR, w.programIndex),
                        Display_UpdateTime>>]
      [] OTHER ->
           [w |-> w, pins |-> p,
            notes |-> <<Display_UpdateWasherState(ERROR, w.programIndex),
                        Display_UpdateTime>>]

Washer_UpdateTemp(w, temperature, p) ==
    CASE w.state = IDLE ->
           [w |-> w, pins |-> p, notes |-> <<Display_UpdateTime>>]
      [] w.state = FILL_WATER ->
           LET n == <<Display_UpdateWasherState(FILL_WATER, w.programIndex),
                      Display_UpdateTime>>
               v == IF temperature < TEMP_HOT_BELOW
                    THEN HAL_GPIO_WritePin(HAL_GPIO_WritePin(p, {"WATER_HOT"}, TRUE),
                                           {"WATER_COLD"}, FALSE)
                    ELSE IF temperature > TEMP_COLD_ABOVE
                    THEN HAL_GPIO_WritePin(HAL_GPIO_WritePin(p, {"WATER_HOT"}, FALSE),
                                           {"WATER_COLD"}, TRUE)
                    ELSE HAL_GPIO_WritePin(HAL_GPIO_WritePin(p, {"WATER_HOT"}, TRUE),
                                           {"WATER_COLD"}, TRUE)
           IN  [w |-> [w EXCEPT !.state = WASH], pins |-> v, notes |-> n]
      [] w.state = WASH ->
           [w |-> [w EXCEPT !.state = RINSE], pins |-> p,
            notes |-> <<Display_UpdateWasherState(WASH, w.programIndex),
                        Display_UpdateTime>>]
      [] w.state = RINSE ->
           [w |-> [w EXCEPT !.state = SPIN], pins |-> p,
            notes |-> <<Display_UpdateWasherState(RINSE, w.programIndex),
                        Display_UpdateTime>>]
      [] w.state = SPIN ->
           [w |-> [w EXCEPT !.state = IDLE], pins |-> p,
            notes |-> <<Display_UpdateWasherState(SPIN, w.programIndex),
                        Display_UpdateTime>>]
      [] w.state = ERROR ->
           [w |-> w, pins |-> p,
            notes |-> <<Display_UpdateWasherState(ERROR, w.programIndex),
                        Display_UpdateTime>>]
      [] OTHER ->
           [w |-> w, pins |-> p,
            notes |-> <<Display_UpdateWasherState(ERROR, w.programIndex),
                        Display_UpdateTime>>]

\* part_000's Washer_HandleButtonPress: the branches of washer.c, then
\* Display_UpdateTime()
Washer_HandleButtonPressTemp(w, button) ==
    LET r == Washer_HandleButtonPress(w, button)
    IN  [w |-> r.w, notes |-> Append(r.notes, Display_UpdateTime)]

(***************************************************************************)
(* main.c: the button polling of the host loop                             *)
(***************************************************************************)
\* the delay of one loop iteration
HAL_DELAY == 100
\* time one iteration may take: the delay alone, or one fill time
LoopDelays == {HAL_DELAY, FILL_DURATION}
\* loop iterations the model follows
MaxLoops == 4

\* mutant: Stop is polled before Start
MainStartStop_StopFirst(state, pressed) ==
    LET s1 == IF BUTTON_STOP \in pressed THEN IDLE ELSE state
    IN  IF BUTTON_START \in pressed /\ s1 = IDLE THEN FILL_WATER ELSE s1

\* the Start and Stop polls, in this order
MainStartStop(state, pressed) ==
    LET s1 == IF BUTTON_START \in pressed /\ state = IDLE THEN FILL_WATER ELSE state
    IN  IF BUTTON_STOP \in pressed THEN IDLE ELSE s1

\* the Up and Down polls, in this order
MainUpDown(sel, pressed) ==
    LET u == IF BUTTON_UP \in pressed /\ sel < MAX_PROGRAM THEN sel + 1 ELSE sel
    IN  IF BUTTON_DOWN \in pressed /\ u > 0 THEN u - 1 ELSE u

(***************************************************************************)
(* The calls as steps                                                      *)
(***************************************************************************)
Snapshot ==
    [w |-> washer, lastTime |-> lastTime, pins |-> pins,
     selectedProgram |-> selectedProgram]

Call(op, button, pressed, adc) ==
    [op |-> op, button |-> button, pressed |-> pressed, now |-> tick, adc |-> adc]

\* history: a Stop arriving now ends a fill that has run less than the fill time
CutsFillShort(stop) ==
    stop /\ washer.state = FILL_WATER /\ tick - startTick < FILL_DURATION

\* main.c: the global initialiser, then Washer_Init(&washer); pins at reset level
Init ==
    /\ washer = Washer_Init([state |-> IDLE, programIndex |-> 0, stepIndex |-> 0,
                             timer |-> 0, direction |-> 0]).w
    /\ lastTime = 0
    /\ tick = 0
    /\ pins = AllOff
    /\ selectedProgram = 0
    /\ iteration = 0
    /\ notes = <<Display_UpdateWasherState(IDLE, 0)>>
    /\ lastCall = Call("init", NO_BUTTON, {}, -1)
    /\ pre = Snapshot
    /\ startTick = 0
    /\ cancelled = FALSE

\* Washer_HandleButtonPress(&washer, b)
ButtonPress ==
    \E b \in ButtonInputs :
        LET r == Washer_HandleButtonPress(washer, b)
        IN  /\ washer' = r.w
            /\ notes' = r.notes
            /\ lastCall' = Call("button", b, {}, -1)
            /\ pre' = Snapshot
            /\ startTick' = IF b = BUTTON_START /\ washer.state = IDLE
                            THEN tick ELSE startTick
            /\ cancelled' = (cancelled \/ CutsFillShort(b = BUTTON_STOP))
            /\ UNCHANGED <<lastTime, tick, pins, selectedProgram, iteration>>

\* Washer_Update(&washer)
Update ==
    LET r == Washer_Update(washer, lastTime, tick, pins)
    IN  /\ washer' = r.w
        /\ lastTime' = r.lastTime
        /\ pins' = r.pins
        /\ notes' = r.notes
        /\ lastCall' = Call("update", NO_BUTTON, {}, -1)
        /\ pre' = Snapshot
        /\ UNCHANGED <<tick, selectedProgram, iteration, startTick, cancelled>>

\* the HAL tick advances between calls
Tick ==
    \E d \in TickSteps :
        /\ tick + d <= MaxTick
        /\ tick' = tick + d
        /\ UNCHANGED <<washer, lastTime, pins, selectedProgram, iteration, notes,
                       lastCall, pre, startTick, cancelled>>

Next == ButtonPress \/ Update \/ Tick

Spec == Init /\ [][Next]_vars

\* main.c 72-100: the loop never ends, so update is called again and again,
\* and the HAL tick keeps counting between the calls
SpecFair == Spec /\ WF_vars(Update) /\ WF_vars(Tick)

\* the state field is overwritten from outside with a value no enumerator names
Corrupt ==
    \E v \in RawStates \ WasherStates :
        /\ washer' = [washer EXCEPT !.state = v]
        /\ lastCall' = Call("corrupt", NO_BUTTON, {}, -1)
        /\ pre' = Snapshot
        /\ UNCHANGED <<lastTime, tick, pins, selectedProgram, iteration, notes,
                       startTick, cancelled>>

NextCorrupt == ButtonPress \/ Update \/ Tick \/ Corrupt

SpecCorrupt == Init /\ [][NextCorrupt]_vars

\* part_000: Washer_HandleButtonPress(&washer, b)
ButtonPressTemp ==
    \E b \in ButtonInputs :
        LET r == Washer_HandleButtonPressTemp(washer, b)
        IN  /\ washer' = r.w
            /\ notes' = r.notes
            /\ lastCall' = Call("button", b, {}, -1)
            /\ pre' = Snapshot
            /\ UNCHANGED <<lastTime, tick, pins, selectedProgram, iteration, startTick,
                           cancelled>>

\* part_000: Washer_Update(&washer), the ADC delivering adc
UpdateTemp ==
    \E adc \in AdcSamples :
        LET r == Washer_UpdateTemp(washer, Read_Temperature(adc), pins)
        IN  /\ washer' = r.w
            /\ pins' = r.pins
            /\ notes' = r.notes
            /\ lastCall' = Call("update", NO_BUTTON, {}, adc)
            /\ pre' = Snapshot
            /\ UNCHANGED <<lastTime, tick, selectedProgram, iteration, startTick,
                           cancelled>>

NextTemp == ButtonPressTemp \/ UpdateTemp

SpecTemp == Init /\ [][NextTemp]_vars

\* main.c: one iteration of while (1)
MainLoop ==
    \E pressed \in SUBSET {BUTTON_START, BUTTON_STOP, BUTTON_UP, BUTTON_DOWN},
       d \in LoopDelays :
        LET polled == [washer EXCEPT !.state = MainStartStop(washer.state, pressed)]
            r == Washer_Update(polled, lastTime, tick, pins)
        IN  /\ tick + d <= MaxTick
            /\ iteration < MaxLoops
            /\ iteration' = iteration + 1
            /\ washer' = r.w
            /\ selectedProgram' = MainUpDown(selectedProgram, pressed)
            /\ lastTime' = r.lastTime
            /\ pins' = r.pins
            /\ notes' = r.notes
            /\ tick' = tick + d
            /\ lastCall' = Call("loop", NO_BUTTON, pressed, -1)
            /\ pre' = Snapshot
            /\ startTick' = IF BUTTON_START \in pressed /\ washer.state = IDLE
                            THEN tick ELSE startTick
            /\ cancelled' = (cancelled \/ CutsFillShort(BUTTON_STOP \in pressed))

SpecMain == Init /\ [][MainLoop]_vars

\* uint32_t ticks (washer.c 84-85) as two 16-bit halves, hi * 2^16 + lo; the
\* field up counts the ticks of the behaviour without reduction and is read by
\* properties only
HALF == 65536
FAR_PAST == -1000000000
U32(hi, lo, up) == [hi |-> hi, lo |-> lo, up |-> up]
\* HAL_GetTick() d ticks later, d < 2^16
Add32(a, d) ==
    LET l == a.lo + d
    IN  U32((a.hi + (l \div HALF)) % HALF, l % HALF, a.up + d)
\* currentTime - lastTime on uint32_t
Sub32(a, b) ==
    LET l == a.lo - b.lo
        h == a.hi - b.hi - (IF l < 0 THEN 1 ELSE 0)
    IN  [hi |-> h % HALF, lo |-> l % HALF]
\* v >= n on uint32_t, n < 2^16
Ge32(v, n) == v.hi > 0 \/ v.lo >= n

\* Washer_Update with the ticks at their width; only the FILL_WATER branch
\* reads them
Washer_Update32(w, last, currentTime, p) ==
    IF w.state = FILL_WATER
    THEN LET n  == <<Display_UpdateWasherState(FILL_WATER, w.programIndex)>>
             p1 == HAL_GPIO_WritePin(p, {"WATER_HOT"}, TRUE)
             p2 == HAL_GPIO_WritePin(p1, {"WATER_COLD"}, TRUE)
         IN  IF Ge32(Sub32(currentTime, last), FILL_DURATION)
             THEN [w |-> [w EXCEPT !.state = WASH],
                   lastTime |-> currentTime,
                   pins |-> HAL_GPIO_WritePin(p2, WATER_PINS, FALSE),
                   notes |-> n]
             ELSE [w |-> w, lastTime |-> last, pins |-> p2, notes |-> n]
    ELSE [Washer_Update(w, 0, 0, p) EXCEPT !.lastTime = last]

\* the controller after 49 days: the tick shortly before 2^32, lastTime as
\* boot left it, as a fill that ended 15 s ago left it, or as a cycle that
\* ended at this very tick left it
WrapStartTicks == {U32(HALF - 1, HALF - 15000, 0), U32(HALF - 1, HALF - 5000, 0)}
InitWrap ==
    /\ washer = Washer_Init([state |-> IDLE, programIndex |-> 0, stepIndex |-> 0,
                             timer |-> 0, direction |-> 0]).w
    /\ tick \in WrapStartTicks
    /\ lastTime \in {U32(0, 0, FAR_PAST),
                    U32(tick.hi, tick.lo - 15000, tick.up - 15000),
                    tick}
    /\ pins = AllOff
    /\ selectedProgram = 0
    /\ iteration = 0
    /\ notes = <<>>
    /\ lastCall = Call("reset", NO_BUTTON, {}, -1)
    /\ pre = Snapshot
    /\ startTick = tick
    /\ cancelled = FALSE

ButtonPressWrap ==
    \E b \in ButtonInputs :
        LET r == Washer_HandleButtonPress(washer, b)
        IN  /\ washer' = r.w
            /\ notes' = r.notes
            /\ lastCall' = Call("button", b, {}, -1)
            /\ pre' = Snapshot
            /\ startTick' = IF b = BUTTON_START /\ washer.state = IDLE
                            THEN tick ELSE startTick
            /\ UNCHANGED <<lastTime, tick, pins, selectedProgram, iteration, cancelled>>

UpdateWrap ==
    LET r == Washer_Update32(washer, lastTime, tick, pins)
    IN  /\ washer' = r.w
        /\ lastTime' = r.lastTime
        /\ pins' = r.pins
        /\ notes' = r.notes
        /\ lastCall' = Call("update", NO_BUTTON, {}, -1)
        /\ pre' = Snapshot
        /\ UNCHANGED <<tick, selectedProgram, iteration, startTick, cancelled>>

TickWrap ==
    \E d \in TickSteps :
        /\ tick.up + d <= MaxTick
        /\ tick' = Add32(tick, d)
        /\ UNCHANGED <<washer, lastTime, pins, selectedProgram, iteration, notes,
                       lastCall, pre, startTick, cancelled>>

NextWrap == ButtonPressWrap \/ UpdateWrap \/ TickWrap

SpecWrap == InitWrap /\ [][NextWrap]_vars

\* Washer_Init on a structure that holds anything: the contents a caller may
\* hand over, with an out-of-range state or program index among them
PriorContents ==
    [state : RawStates,
     programIndex : {0, 7, MAX_PROGRAM, MAX_PROGRAM + 1},
     stepIndex : {0, 1},
     timer : {0, FILL_DURATION},
     direction : {FORWARD, 1}]

InitPrior ==
    /\ washer \in PriorContents
    /\ lastTime = 0
    /\ tick = 0
    /\ pins = AllOff
    /\ selectedProgram = 0
    /\ iteration = 0
    /\ notes = <<>>
    /\ lastCall = Call("reset", NO_BUTTON, {}, -1)
    /\ pre = Snapshot
    /\ startTick = 0
    /\ cancelled = FALSE

\* Washer_Init(&washer)
InitCall ==
    LET r == Washer_Init(washer)
    IN  /\ washer' = r.w
        /\ notes' = r.notes
        /\ lastCall' = Call("init", NO_BUTTON, {}, -1)
        /\ pre' = Snapshot
        /\ UNCHANGED <<lastTime, tick, pins, selectedProgram, iteration,
                       startTick, cancelled>>

SpecInit == InitPrior /\ [][InitCall]_vars

(***************************************************************************)
(* Properties                                                              *)
(***************************************************************************)
IsButton(b) == lastCall.op = "button" /\ lastCall.button = b
IsUpdate == lastCall.op = "update"
IsLoop == lastCall.op = "loop"
ValvesOff == ~pins["WATER_HOT"] /\ ~pins["WATER_COLD"]
MotorOff == ~pins["MOTOR_FORWARD"] /\ ~pins["MOTOR_REVERSE"]

\* C1: a handle_button call with Stop returns with state == Idle, whatever the
\* state (the six enumerated ones or a raw value), the tick and the outputs
\* were before the call.
C1_StopForcesIdle ==
    IsButton(BUTTON_STOP) => washer.state = IDLE

\* C1 witness: Stop was pressed in Error, at a tick past the fill time, and
\* the call left Idle.
C1_Witness ==
    /\ IsButton(BUTTON_STOP)
    /\ pre.w.state = ERROR
    /\ lastCall.now >= FILL_DURATION
    /\ washer.state = IDLE

\* C1 in the host loop: an iteration that saw Stop pressed ends in Idle.
C1_StopForcesIdle_Main ==
    (IsLoop /\ BUTTON_STOP \in lastCall.pressed) => washer.state = IDLE

\* C2: in every reachable state the program index is within 0 .. 29.
C2_ProgramIndexInRange ==
    washer.programIndex >= 0 /\ washer.programIndex <= 29

\* C2 witness: ProgramUp was pressed in Idle at index 29.
C2_Witness ==
    /\ IsButton(BUTTON_UP)
    /\ pre.w.state = IDLE
    /\ pre.w.programIndex = 29
    /\ washer.programIndex = 29

\* C2 in the host loop: selectedProgram stays within 0 .. 29.
C2_SelectedProgramInRange_Main ==
    selectedProgram >= 0 /\ selectedProgram <= 29

\* C3: an update call made in FillWater leaves FillWater while less than
\* 10000 ticks have passed since the Start that opened the fill, and moves to
\* Wash once 10000 or more have passed, for every start tick.
C3_FillGate ==
    (IsUpdate /\ pre.w.state = FILL_WATER) =>
        IF lastCall.now - startTick < 10000
        THEN washer.state = FILL_WATER
        ELSE washer.state = WASH

\* C4: an update call made in FillWater with temperature sample t leaves hot
\* ON / cold OFF when t < 25.0, hot OFF / cold ON when t > 35.0 and both ON
\* otherwise, whatever the valve levels were before the call; 25.0 and 35.0
\* themselves give both ON.  (t = adc * 100 / 4095.)
C4_ValvePolicy ==
    /\ (IsUpdate /\ pre.w.state = FILL_WATER) =>
           LET adc == lastCall.adc
           IN  /\ pins["WATER_HOT"] = ~(adc * 100 > 35 * 4095)
               /\ pins["WATER_COLD"] = ~(adc * 100 < 25 * 4095)
    /\ washer.state = FILL_WATER =>
           \A t \in {25 * 4095, 35 * 4095} :
               LET v == Washer_UpdateTemp(washer, t, pins).pins
               IN  v["WATER_HOT"] /\ v["WATER_COLD"]

\* C4 witness: an update call in FillWater sampled 24.98 degrees (adc 1023)
\* while the cold valve was ON from an earlier fill, and left hot ON, cold OFF.
C4_Witness ==
    /\ IsUpdate
    /\ pre.w.state = FILL_WATER
    /\ lastCall.adc = 1023
    /\ pre.pins["WATER_COLD"]
    /\ pins["WATER_HOT"]
    /\ ~pins["WATER_COLD"]

\* C5: after every call a valve output is ON only in FillWater and the motor
\* forward output is ON only in Spin.
C5_OutputsOnlyInPhase ==
    /\ (pins["WATER_HOT"] \/ pins["WATER_COLD"]) => washer.state = FILL_WATER
    /\ pins["MOTOR_FORWARD"] => washer.state = SPIN

\* C6: a Start event moves Idle to FillWater and nothing else to FillWater; a
\* Start event in any other state leaves the control structure (state, program
\* index, timer) and the fill timer's reference tick unchanged.
C6_StartOnlyFromIdle ==
    IsButton(BUTTON_START) =>
        /\ pre.w.state = IDLE => washer.state = FILL_WATER
        /\ pre.w.state # IDLE => (washer = pre.w /\ lastTime = pre.lastTime)
        /\ (washer.state # pre.w.state) <=> (pre.w.state = IDLE)

\* C6 witness: Start was pressed in Wash and changed nothing.
C6_Witness ==
    /\ IsButton(BUTTON_START)
    /\ pre.w.state = WASH
    /\ washer = pre.w

\* C6 in the host loop: with only Start pressed, the update of an iteration
\* that began in Idle runs in FillWater, and an iteration that began in any
\* other state ends as the update alone would have ended it.
C6_StartOnlyFromIdle_Main ==
    (IsLoop /\ lastCall.pressed = {BUTTON_START}) =>
        /\ pre.w.state = IDLE =>
               notes = <<Display_UpdateWasherState(FILL_WATER, washer.programIndex)>>
        /\ pre.w.state # IDLE =>
               washer = Washer_Update(pre.w, pre.lastTime, lastCall.now, pre.pins).w

\* C7: a ProgramUp or ProgramDown event received while the state is not Idle
\* leaves the selected program and the control structure unchanged and emits
\* no notification; in the host loop this is stated for the iterations that
\* are outside Idle both when they begin and after their Start and Stop polls.
C7_ProgramOnlyInIdle ==
    /\ ((IsButton(BUTTON_UP) \/ IsButton(BUTTON_DOWN)) /\ pre.w.state # IDLE) =>
           (washer = pre.w /\ notes = <<>>)
    /\ (/\ IsLoop
        /\ lastCall.pressed \cap {BUTTON_UP, BUTTON_DOWN} # {}
        /\ pre.w.state # IDLE
        /\ MainStartStop(pre.w.state, lastCall.pressed) # IDLE) =>
           selectedProgram = pre.selectedProgram

\* C8: in Idle, ProgramUp increments the index below 29 and keeps 29,
\* ProgramDown decrements it above 0 and keeps 0, and Up followed by Down
\* restores every index in 0 .. 28.
C8_ProgramClamp ==
    /\ (IsButton(BUTTON_UP) /\ pre.w.state = IDLE) =>
           washer.programIndex =
               (IF pre.w.programIndex < 29 THEN pre.w.programIndex + 1 ELSE 29)
    /\ (IsButton(BUTTON_DOWN) /\ pre.w.state = IDLE) =>
           washer.programIndex =
               (IF pre.w.programIndex > 0 THEN pre.w.programIndex - 1 ELSE 0)
    /\ (washer.state = IDLE /\ washer.programIndex \in 0 .. 28) =>
           Washer_HandleButtonPress(
               Washer_HandleButtonPress(washer, BUTTON_UP).w,
               BUTTON_DOWN).w.programIndex = washer.programIndex

\* C8 witness: ProgramDown was pressed in Idle at index 0 and the index stayed 0.
C8_Witness ==
    /\ IsButton(BUTTON_DOWN)
    /\ pre.w.state = IDLE
    /\ pre.w.programIndex = 0
    /\ washer.programIndex = 0

\* C9: an update call in Wash ends in Rinse, one in Rinse ends in Spin and one
\* in Spin ends in Idle, at every tick; the call made in Spin leaves motor
\* forward ON and motor reverse OFF.
C9_WashRinseSpin ==
    IsUpdate =>
        /\ pre.w.state = WASH => washer.state = RINSE
        /\ pre.w.state = RINSE => washer.state = SPIN
        /\ pre.w.state = SPIN =>
               /\ washer.state = IDLE
               /\ pins["MOTOR_FORWARD"]
               /\ ~pins["MOTOR_REVERSE"]

\* C9 witness: the update call made in Spin has returned, in Idle with the
\* motor forward.
C9_Witness ==
    /\ IsUpdate
    /\ pre.w.state = SPIN
    /\ washer.state = IDLE
    /\ pins["MOTOR_FORWARD"]
    /\ ~pins["MOTOR_REVERSE"]

\* C10: an update call that finds a state value outside the six enumerated
\* states returns with state == Error and all four outputs OFF.
C10_InvalidStateSafed ==
    (IsUpdate /\ pre.w.state \notin WasherStates) =>
        (washer.state = ERROR /\ ValvesOff /\ MotorOff)

\* the last step was a call into the controller
IsControllerCall == lastCall.op \in {"button", "update"}
CycleStates == {IDLE, FILL_WATER, WASH, RINSE, SPIN}

\* C11: from Error, every update call and every Start, ProgramUp or
\* ProgramDown event returns in Error; an update call in Error leaves all four
\* outputs OFF and notifies (Error, program index); the only call that leaves
\* Error is Stop, and it leaves it for Idle.
C11_ErrorAbsorbing ==
    pre.w.state = ERROR =>
        /\ IsUpdate =>
               /\ washer = pre.w
               /\ ValvesOff /\ MotorOff
               /\ notes = <<[kind |-> "state", state |-> ERROR,
                             programIndex |-> pre.w.programIndex]>>
        /\ (IsButton(BUTTON_START) \/ IsButton(BUTTON_UP) \/ IsButton(BUTTON_DOWN)) =>
               washer = pre.w
        /\ (IsControllerCall /\ washer.state # ERROR) =>
               (IsButton(BUTTON_STOP) /\ washer.state = IDLE)

\* C11 witness: an update call found Error with a valve ON and returned in
\* Error with every output OFF.
C11_Witness ==
    /\ IsUpdate
    /\ pre.w.state = ERROR
    /\ pre.pins["WATER_HOT"]
    /\ washer.state = ERROR
    /\ ValvesOff /\ MotorOff

\* C12: a call into the controller made in one of Idle, FillWater, Wash,
\* Rinse, Spin returns in one of them, so no sequence of calls from init
\* reaches Error; Error is entered only by an update call that finds a state
\* value outside the enumerated states.
C12_ErrorOnlyFromInvalid ==
    /\ (IsControllerCall /\ pre.w.state \in CycleStates) => washer.state \in CycleStates
    /\ (IsControllerCall /\ washer.state = ERROR /\ pre.w.state # ERROR) =>
           (IsUpdate /\ pre.w.state \notin WasherStates)
    /\ lastCall.op = "init" => washer.state = IDLE

\* C12 witness: an update call found the raw value 6 and returned in Error.
C12_Witness ==
    /\ IsUpdate
    /\ pre.w.state = 6
    /\ washer.state = ERROR

\* C12 without the outside write: no state reachable from init is Error.
C12_NoErrorFromInit ==
    washer.state \in CycleStates

\* the step is an update call made at the tick the previous call was made at
UpdateStep == lastCall'.op = "update" /\ pre' = Snapshot /\ tick' = tick
RepeatedUpdateStep == IsUpdate /\ lastCall.now = tick /\ UpdateStep

\* C13: two update calls in a row at the same tick leave the state equal to
\* its value before the first of them, whatever that state is.
C13_UpdateIdempotent ==
    [][RepeatedUpdateStep => washer'.state = pre.w.state]_vars

\* C13 amended: an update call leaves Idle and Error unchanged; an update call
\* repeated at the tick of an update call that left FillWater unchanged leaves
\* FillWater unchanged; an update call in Wash, Rinse or Spin changes the
\* state at every tick.
C13_UpdateIdempotentWhereGated ==
    [][UpdateStep =>
          /\ washer.state \in {IDLE, ERROR} => washer'.state = washer.state
          /\ (RepeatedUpdateStep /\ pre.w.state = FILL_WATER
                  /\ washer.state = FILL_WATER) => washer'.state = FILL_WATER
          /\ washer.state \in {WASH, RINSE, SPIN} => washer'.state # washer.state
      ]_vars

\* C13 witness: the second update call of a fill, made at the tick of the
\* Start like the first, has returned in FillWater.
C13_Witness ==
    /\ IsUpdate
    /\ lastCall.now = startTick
    /\ ~cancelled
    /\ pre.w.state = FILL_WATER
    /\ pre.pins["WATER_HOT"]
    /\ washer.state = FILL_WATER

\* C14: a call of init, whatever the structure held before, leaves state Idle,
\* program index 0, step index 0, phase start tick 0 and direction Forward,
\* and notifies the status sink exactly once, with (Idle, 0).
C14_InitResets ==
    lastCall.op = "init" =>
        /\ washer.state = IDLE
        /\ washer.programIndex = 0
        /\ washer.stepIndex = 0
        /\ washer.timer = 0
        /\ washer.direction = FORWARD
        /\ Len(notes) = 1
        /\ notes[1] = [kind |-> "state", state |-> IDLE, programIndex |-> 0]

\* C14 witness: init has returned on a structure that held an out-of-range
\* state, a program index above the maximum and a non-zero phase start tick.
C14_Witness ==
    /\ lastCall.op = "init"
    /\ pre.w.state \notin WasherStates
    /\ pre.w.programIndex > MAX_PROGRAM
    /\ pre.w.timer # 0
    /\ pre.w.direction # FORWARD
    /\ washer.state = IDLE
    /\ washer.programIndex = 0

\* the control structure after handle_button has taken the presses of one
\* iteration, in the order the loop polls them
HandleAll(w, pressed, buttons) ==
    LET Step(v, b) == IF b \in pressed THEN Washer_HandleButtonPress(v, b).w ELSE v
        w1 == IF Len(buttons) >= 1 THEN Step(w, buttons[1]) ELSE w
        w2 == IF Len(buttons) >= 2 THEN Step(w1, buttons[2]) ELSE w1
        w3 == IF Len(buttons) >= 3 THEN Step(w2, buttons[3]) ELSE w2
    IN  IF Len(buttons) >= 4 THEN Step(w3, buttons[4]) ELSE w3

\* C15: an iteration of the host loop leaves the control structure as update
\* leaves it when called on the structure to which every press observed in
\* the iteration has been applied by handle_button.
C15_ButtonsAppliedBeforeUpdate ==
    IsLoop =>
        washer = Washer_Update(
                     HandleAll(pre.w, lastCall.pressed,
                               <<BUTTON_START, BUTTON_STOP, BUTTON_UP, BUTTON_DOWN>>),
                     pre.lastTime, lastCall.now, pre.pins).w

\* the part of C15 the loop does keep: Start and Stop are applied before the
\* update of the same iteration, so a Start in Idle is followed in the same
\* iteration by the first update in FillWater, which opens the valves unless
\* the fill gate is already past
C15_StartStopBeforeUpdate_Main ==
    IsLoop =>
        /\ washer.state =
               Washer_Update(HandleAll(pre.w, lastCall.pressed,
                                       <<BUTTON_START, BUTTON_STOP>>),
                             pre.lastTime, lastCall.now, pre.pins).w.state
        /\ (pre.w.state = IDLE /\ lastCall.pressed = {BUTTON_START}) =>
               /\ notes = <<[kind |-> "state", state |-> FILL_WATER,
                             programIndex |-> pre.w.programIndex]>>
               /\ Elapsed(lastCall.now, pre.lastTime) < FILL_DURATION =>
                      (pins["WATER_HOT"] /\ pins["WATER_COLD"])

\* a Start accepted in Idle, early enough for the fill time to fit in the horizon
StartAccepted ==
    /\ IsButton(BUTTON_START)
    /\ pre.w.state = IDLE
    /\ washer.state = FILL_WATER
    /\ lastCall.now + 2 * FILL_DURATION <= MaxTick
\* the update call that ends the cycle
CycleEnd == IsUpdate /\ pre.w.state = SPIN /\ washer.state = IDLE
\* a button event received after the Start, while the cycle runs
FurtherButton == lastCall.op = "button" /\ pre.w.state # IDLE
\* the successor of a phase in the cycle
NextPhase(s) ==
    CASE s = FILL_WATER -> WASH
      [] s = WASH -> RINSE
      [] s = RINSE -> SPIN
      [] s = SPIN -> IDLE
      [] OTHER -> s

\* C16: after a Start accepted in Idle, with update called again and again and
\* the tick advancing, the cycle ends with the return from Spin to Idle unless
\* a further button event arrives; on the way the state moves only from a
\* phase to its successor (FillWater, Wash, Rinse, Spin, Idle), and Idle is
\* left only by a Start.
C16_CycleCompletes ==
    /\ StartAccepted ~> (CycleEnd \/ FurtherButton)
    /\ [][(lastCall'.op = "update" /\ pre' = Snapshot /\ washer'.state # washer.state)
              => washer'.state = NextPhase(washer.state)]_vars
    /\ [][(washer.state = IDLE /\ washer'.state # IDLE)
              => (lastCall'.op = "button" /\ lastCall'.button = BUTTON_START)]_vars

\* C16 witness: the update call that ends a cycle whose Start came early
\* enough and which no Stop has cut short.
C16_Witness ==
    /\ CycleEnd
    /\ ~cancelled
    /\ startTick + 2 * FILL_DURATION <= MaxTick
    /\ lastCall.now >= startTick

\* a call of the controller that changed the state
StateChanged == IsControllerCall /\ washer.state # pre.w.state

\* C17: when a call of update or of handle_button that changed the state
\* returns, the phase start tick equals the tick of that call; the phase start
\* is read from either place the code could keep it, the timer field of the
\* structure or the static lastTime of Washer_Update.
C17_PhaseStartStamped ==
    StateChanged => (washer.timer = lastCall.now \/ lastTime = lastCall.now)

\* C18: after a call of update or of handle_button that changed the state, the
\* notification emitted last carries the new state and the program index.
C18_NotifiedNewState ==
    StateChanged =>
        /\ notes # <<>>
        /\ notes[Len(notes)] = [kind |-> "state", state |-> washer.state,
                                programIndex |-> washer.programIndex]

\* C19: after a Stop has cut a fill short, an update call made in FillWater
\* less than the fill time after the latest Start leaves the state FillWater.
C19_RestartedFillRunsWhole ==
    (IsUpdate /\ cancelled /\ pre.w.state = FILL_WATER
         /\ lastCall.now - startTick < FILL_DURATION)
        => washer.state = FILL_WATER

\* C20: an update call in Idle leaves the state Idle and commands the motor
\* and both valves OFF; a call that leaves Idle is a Start button event.
C20_IdleUpdate ==
    /\ (IsUpdate /\ pre.w.state = IDLE) =>
           /\ washer = pre.w
           /\ ValvesOff /\ MotorOff
    /\ (IsControllerCall /\ pre.w.state = IDLE /\ washer.state # IDLE) =>
           (IsButton(BUTTON_START) /\ washer.state = FILL_WATER)

\* C20 witness: an update call in Idle, reached by a Stop that left the
\* valves open, has returned with every output OFF.
C20_Witness ==
    /\ IsUpdate
    /\ pre.w.state = IDLE
    /\ pre.pins["WATER_HOT"] /\ pre.pins["WATER_COLD"]
    /\ washer.state = IDLE
    /\ ValvesOff /\ MotorOff

\* the transition table: the one state an update call may move to
Successor(s) ==
    CASE s = FILL_WATER -> WASH
      [] s = WASH -> RINSE
      [] s = RINSE -> SPIN
      [] s = SPIN -> IDLE
      [] s \in {IDLE, ERROR} -> s
      [] OTHER -> ERROR

\* C21: the state after an update call is the state before the call or its
\* single successor in the transition table; no call skips a phase.
C21_OneTransitionPerCall ==
    IsUpdate => washer.state \in {pre.w.state, Successor(pre.w.state)}

\* C21 witness: the update call that passes the fill gate has returned in
\* Wash, not further on.
C21_Witness ==
    /\ IsUpdate
    /\ pre.w.state = FILL_WATER
    /\ Elapsed(lastCall.now, pre.lastTime) >= FILL_DURATION
    /\ washer.state = WASH

\* the washer-state notifications among those a call emitted
StateNotes == SelectSeq(notes, LAMBDA n : n.kind = "state")

\* C22: an update call emits at most one washer-state notification, in every
\* state and also when it performs a transition.
C22_OneNotificationPerCall ==
    IsUpdate => Len(StateNotes) <= 1

\* C22 witness: an update call that performed a transition has emitted one
\* washer-state notification.
C22_Witness ==
    /\ IsUpdate
    /\ washer.state # pre.w.state
    /\ pre.w.state \in WasherStates
    /\ Len(StateNotes) = 1

\* an update call in FillWater of a fill entered before the counter wrapped,
\* made after it wrapped
WrappedFillUpdate ==
    /\ IsUpdate
    /\ pre.w.state = FILL_WATER
    /\ startTick.hi = HALF - 1
    /\ lastCall.now.hi = 0

\* C23: when the 32-bit tick counter wraps during FillWater, an update call
\* leaves FillWater exactly when 10000 ticks have passed since the phase was
\* entered, neither earlier nor later.
C23_FillGateWrapSafe ==
    WrappedFillUpdate =>
        (washer.state = WASH <=> lastCall.now.up - startTick.up >= FILL_DURATION)

\* what the subtraction does give: across the wrap the gate opens exactly
\* when 10000 ticks have passed since lastTime was written, provided that was
\* less than 2^32 ticks ago
C23_GateFromLastTime_Wrap ==
    (IsUpdate /\ pre.w.state = FILL_WATER /\ pre.lastTime.up # FAR_PAST) =>
        (washer.state = WASH <=> lastCall.now.up - pre.lastTime.up >= FILL_DURATION)

\* reached: a fill entered at the tick lastTime was written at, held across
\* the wrap by an update 9999 ticks after entry
C23_HeldAcrossWrap ==
    /\ WrappedFillUpdate
    /\ pre.lastTime = startTick
    /\ lastCall.now.up - startTick.up = FILL_DURATION - 1
    /\ washer.state = FILL_WATER

\* the update call took a sample from the temperature sensor
SampleRead == lastCall.adc # -1

\* C24: an update call reads a temperature sample exactly when the state at
\* the start of the call is FillWater; calls in Idle, Wash, Rinse, Spin and
\* Error read none.
C24_TemperatureReadOnlyInFill ==
    IsUpdate => (SampleRead <=> pre.w.state = FILL_WATER)

\* C25: the update call that follows a Stop event, with no other call in
\* between, commands both valves and both motor outputs OFF, whatever the
\* state the Stop was received in and whatever that phase had energised.
C25_StopThenUpdateAllOff ==
    [][(IsButton(BUTTON_STOP) /\ lastCall'.op = "update" /\ pre' = Snapshot)
           => pins' = AllOff]_vars

\* C25 in the host loop: an iteration that reads Stop ends with every output OFF
C25_StopAllOff_Main ==
    (IsLoop /\ BUTTON_STOP \in lastCall.pressed) => pins = AllOff

\* C25 witness: the first update call after a Stop that cut a fill short has
\* found the valves open and has returned with every output OFF.
C25_Witness ==
    /\ IsUpdate
    /\ cancelled
    /\ pre.w.state = IDLE
    /\ pre.pins["WATER_HOT"] /\ pre.pins["WATER_COLD"]
    /\ pins = AllOff

\* C26: in every reachable state the motor forward and motor reverse outputs
\* are not both ON.
C26_MotorWindingsExclusive ==
    ~(pins["MOTOR_FORWARD"] /\ pins["MOTOR_REVERSE"])

\* C26 witness: the update call in Spin has driven the motor, forward only.
C26_Witness ==
    /\ IsUpdate
    /\ pre.w.state = SPIN
    /\ pins["MOTOR_FORWARD"]
    /\ ~pins["MOTOR_REVERSE"]

\* C27: in the host loop every state or program notification carries the
\* program index selected through the Up and Down buttons.
C27_ReportedIndexIsSelected ==
    IsLoop =>
        \A i \in 1 .. Len(notes) :
            notes[i].kind \in {"state", "program"} =>
                notes[i].programIndex = selectedProgram

\* C28: update, Start and Stop leave the program index as it was; Up and Down
\* leave the state and the phase start tick as they were.
C28_Frame ==
    /\ (IsUpdate \/ IsButton(BUTTON_START) \/ IsButton(BUTTON_STOP)) =>
           washer.programIndex = pre.w.programIndex
    /\ (IsButton(BUTTON_UP) \/ IsButton(BUTTON_DOWN)) =>
           /\ washer.state = pre.w.state
           /\ washer.timer = pre.w.timer
           /\ lastTime = pre.lastTime

\* C28 in the host loop: the Start and Stop polls and update leave both program
\* indices alone, the Up and Down polls leave the state to Start, Stop and update
C28_Frame_Main ==
    IsLoop =>
        /\ washer.programIndex = pre.w.programIndex
        /\ washer.timer = pre.w.timer
        /\ lastCall.pressed \subseteq {BUTTON_START, BUTTON_STOP} =>
               selectedProgram = pre.selectedProgram
        /\ washer.state =
               Washer_Update([pre.w EXCEPT !.state =
                                  MainStartStop(pre.w.state,
                                                lastCall.pressed \ {BUTTON_UP, BUTTON_DOWN})],
                             pre.lastTime, lastCall.now, pre.pins).w.state

\* C28 witness: an update call in Idle has kept a program index that the Up
\* button had raised to the maximum.
C28_Witness ==
    /\ IsUpdate
    /\ pre.w.state = IDLE
    /\ pre.w.programIndex = MAX_PROGRAM
    /\ washer.programIndex = MAX_PROGRAM

\* C29: an iteration of the host loop that reads Start and Stop both ends in
\* Idle, whatever the state before: update saw Idle, commanded every output
\* OFF and notified nothing, and no fill began.
C29_StopPrevails ==
    (IsLoop /\ {BUTTON_START, BUTTON_STOP} \subseteq lastCall.pressed) =>
        /\ washer.state = IDLE
        /\ pins = AllOff
        /\ notes = <<>>
        /\ lastTime = pre.lastTime

\* C29 witness: Start and Stop were read together in Idle, where the Start
\* alone would have begun a fill, and the iteration ended in Idle.
C29_Witness ==
    /\ IsLoop
    /\ {BUTTON_START, BUTTON_STOP} \subseteq lastCall.pressed
    /\ pre.w.state = IDLE
    /\ washer.state = IDLE

\* C29 is also reached from a running phase
C29_WitnessFromFill ==
    /\ IsLoop
    /\ {BUTTON_START, BUTTON_STOP} \subseteq lastCall.pressed
    /\ pre.w.state = FILL_WATER
    /\ pre.pins["WATER_HOT"]
    /\ washer.state = IDLE

====
